---- MODULE Spec2Model ----
(***************************************************************************)
(* Downloads Galaxy server (src/downloads-server.py).                      *)
(*                                                                         *)
(* The program scans a directory tree, summarises it per top-level folder  *)
(* and serves the summary on GET /api/scan.  The model keeps the directory *)
(* tree, the existence of the configured root, the clock and the responses *)
(* the endpoint has produced since the tree last changed.                  *)
(*                                                                         *)
(* Strings the program inspects (file and folder names) are sequences of   *)
(* one-character strings, so that startswith, `in`, lower and suffix are   *)
(* computed the way the program computes them.                             *)
(***************************************************************************)
EXTENDS Integers, Sequences, FiniteSets, TLC

VARIABLES
    tree,        \* entries of DOWNLOADS_PATH, in iterdir order
    rootExists,  \* DOWNLOADS_PATH.exists()
    clock,       \* datetime.now(), counted in requests served
    created,     \* number of entries added to the tree so far
    responses,   \* bodies of the /api/scan responses since the tree last changed
    folder,      \* SpecFolder: the folder handed to scan_folder
    summary,     \* SpecFolder: what scan_folder returned for it
    size_bytes,  \* SpecFormat: the argument of format_size
    formatted    \* SpecFormat: what format_size returned for it

vars == <<tree, rootExists, clock, created, responses, folder, summary,
          size_bytes, formatted>>

-----------------------------------------------------------------------------
(* Bounds of the model *)

\* entries the environment adds to the tree on top of the initial fixture
MaxNew == 2
\* files of the pre-populated large folder
BulkCount == 20
\* /api/scan requests served in one behaviour
MaxScans == 2
\* words a generated folder name is made of (SpecFolder)
MaxWords == 2
\* half-width of the windows of byte counts around each unit threshold (SpecFormat)
Window == 12

-----------------------------------------------------------------------------
(* Strings *)

UpperCase == <<"A","B","C","D","E","F","G","H","I","J","K","L","M",
               "N","O","P","Q","R","S","T","U","V","W","X","Y","Z">>
LowerCase == <<"a","b","c","d","e","f","g","h","i","j","k","l","m",
               "n","o","p","q","r","s","t","u","v","w","x","y","z">>
Digits == <<"0","1","2","3","4","5","6","7","8","9">>

\* str.lower() on one character
LowerChar(c) ==
    IF \E i \in 1..26 : UpperCase[i] = c
    THEN LowerCase[CHOOSE i \in 1..26 : UpperCase[i] = c]
    ELSE c

\* str.lower()
Lower(s) == [i \in 1..Len(s) |-> LowerChar(s[i])]

\* sub in s
Contains(sub, s) ==
    \E i \in 0..(Len(s) - Len(sub)) : SubSeq(s, i + 1, i + Len(sub)) = sub

\* s.startswith('.')
StartsWithDot(s) == Len(s) > 0 /\ s[1] = "."

\* s.rfind('.'), 1-based, 0 when there is no dot
RFindDot(s) ==
    IF \E i \in 1..Len(s) : s[i] = "."
    THEN CHOOSE i \in 1..Len(s) : s[i] = "." /\ \A j \in (i+1)..Len(s) : s[j] # "."
    ELSE 0

\* PurePath.suffix: the last dot-component of the name, '' when the only dot
\* leads the name or ends it
Suffix(name) ==
    LET i == RFindDot(name)
    IN IF 1 < i /\ i < Len(name) THEN SubSeq(name, i, Len(name)) ELSE <<>>

\* str(path.relative_to(folder)): the segments joined by '/'
RECURSIVE JoinPath(_)
JoinPath(segs) ==
    IF Len(segs) = 0 THEN <<>>
    ELSE IF Len(segs) = 1 THEN segs[1]
    ELSE segs[1] \o <<"/">> \o JoinPath(Tail(segs))

-----------------------------------------------------------------------------
(* format_size *)

KiB == 1024
MiB == 1024 * 1024
GiB == 1024 * 1024 * 1024

\* round(num / den) to the nearest integer, ties to even, as the float
\* formatting of an exactly representable quotient does; num, den > 0
RoundHalfEven(num, den) ==
    LET q == num \div den
        r == num % den
    IN IF 2 * r > den THEN q + 1
       ELSE IF 2 * r < den THEN q
       ELSE IF q % 2 = 0 THEN q ELSE q + 1

\* f"{b / den:.1f}" as the number of tenths, den a power of two <= MiB
Tenths(b, den) ==
    (b \div den) * 10 + RoundHalfEven((b % den) * 10, den)

\* f"{b / GiB:.2f}" as the number of hundredths; the remainder is split so
\* that no intermediate value leaves 32 bits
Hundredths(b) ==
    LET q == b \div GiB
        r == b % GiB
        h == r \div MiB
        l == r % MiB
        n == h * 100 + ((l * 100) \div MiB)
        m0 == (l * 100) % MiB
        whole == n \div KiB
        rest == (n % KiB) * MiB + m0
        half == GiB \div 2
    IN q * 100 + whole
         + (IF rest > half THEN 1
            ELSE IF rest < half THEN 0
            ELSE IF whole % 2 = 0 THEN 0 ELSE 1)

\* faulty variant: each threshold belongs to the smaller unit
format_size_Inclusive(b) ==
    IF b <= KiB THEN
        [whole |-> b, frac |-> 0, decimals |-> 0, unit |-> "B"]
    ELSE IF b <= MiB THEN
        [whole |-> Tenths(b, KiB) \div 10, frac |-> Tenths(b, KiB) % 10,
         decimals |-> 1, unit |-> "KB"]
    ELSE IF b <= GiB THEN
        [whole |-> Tenths(b, MiB) \div 10, frac |-> Tenths(b, MiB) % 10,
         decimals |-> 1, unit |-> "MB"]
    ELSE
        [whole |-> Hundredths(b) \div 100, frac |-> Hundredths(b) % 100,
         decimals |-> 2, unit |-> "GB"]

format_size(b) ==
    IF b < KiB THEN
        [whole |-> b, frac |-> 0, decimals |-> 0, unit |-> "B"]
    ELSE IF b < MiB THEN
        [whole |-> Tenths(b, KiB) \div 10, frac |-> Tenths(b, KiB) % 10,
         decimals |-> 1, unit |-> "KB"]
    ELSE IF b < GiB THEN
        [whole |-> Tenths(b, MiB) \div 10, frac |-> Tenths(b, MiB) % 10,
         decimals |-> 1, unit |-> "MB"]
    ELSE
        [whole |-> Hundredths(b) \div 100, frac |-> Hundredths(b) % 100,
         decimals |-> 2, unit |-> "GB"]

-----------------------------------------------------------------------------
(* The directory tree *)

\* A regular file.  statFails: the stat() of get_file_data raises OSError.
\* denied: reaching the entry while enumerating raises PermissionError.
File(name, size, statFails, denied) ==
    [name |-> name, kind |-> "file", size |-> size, statFails |-> statFails,
     denied |-> denied, children |-> <<>>]

\* A directory and its entries in the order the file system lists them.
Dir(name, children, denied) ==
    [name |-> name, kind |-> "dir", size |-> 0, statFails |-> FALSE,
     denied |-> denied, children |-> children]

\* Path.rglob('*'): the entries of the directory, then those of each
\* sub-directory in turn, each with its segments below the scanned folder
RECURSIVE rglob(_, _)
RECURSIVE rglobEach(_, _, _)
rglob(entries, prefix) ==
    [i \in 1..Len(entries) |->
        [segs |-> Append(prefix, entries[i].name), entry |-> entries[i]]]
    \o rglobEach(entries, prefix, 1)
rglobEach(entries, prefix, i) ==
    IF i > Len(entries) THEN <<>>
    ELSE (IF entries[i].kind = "dir"
          THEN rglob(entries[i].children, Append(prefix, entries[i].name))
          ELSE <<>>)
         \o rglobEach(entries, prefix, i + 1)

-----------------------------------------------------------------------------
(* get_file_data *)

\* the value get_file_data returns when the metadata read fails
None == [unavailable |-> TRUE]

\* faulty variant: a failed metadata read yields a record of size 0
get_file_data_Unguarded(entry, segs) ==
    LET ext == Lower(Suffix(entry.name))
    IN [name |-> JoinPath(segs),
        extension |-> IF Len(ext) > 0 THEN Tail(ext) ELSE <<>>,
        size_bytes |-> IF entry.statFails THEN 0 ELSE entry.size,
        size |-> format_size(IF entry.statFails THEN 0 ELSE entry.size)]

\* segs: the path of the file below relative_to (the bare name when there is
\* no relative_to)
get_file_data(entry, segs) ==
    IF entry.statFails THEN None
    ELSE LET ext == Lower(Suffix(entry.name))
         IN [name |-> JoinPath(segs),
             extension |-> IF Len(ext) > 0 THEN Tail(ext) ELSE <<>>,
             size_bytes |-> entry.size,
             size |-> format_size(entry.size)]

-----------------------------------------------------------------------------
(* list.sort(key=..., reverse=True): stable, descending *)

\* insert x behind every element whose key is >= its own, so that an
\* element stays behind the equal elements that preceded it
RECURSIVE InsertDesc(_, _, _)
InsertDesc(x, s, key) ==
    IF Len(s) = 0 THEN <<x>>
    ELSE IF Head(s)[key] >= x[key]
         THEN <<Head(s)>> \o InsertDesc(x, Tail(s), key)
         ELSE <<x>> \o s

RECURSIVE SortDesc(_, _)
SortDesc(s, key) ==
    IF Len(s) = 0 THEN <<>>
    ELSE InsertDesc(s[Len(s)], SortDesc(SubSeq(s, 1, Len(s) - 1), key), key)

\* files.sort(key=lambda x: x['size_bytes'], reverse=True)
SortFiles(files) == SortDesc(files, "size_bytes")

\* faulty variant: the folders are left in the order they were found
SortFoldersSkipped(folders) == folders

\* folders.sort(key=lambda x: x['total_size'], reverse=True)
SortFolders(folders) == SortDesc(folders, "total_size")

RECURSIVE SumSizes(_)
SumSizes(files) ==
    IF Len(files) = 0 THEN 0 ELSE Head(files).size_bytes + SumSizes(Tail(files))

-----------------------------------------------------------------------------
(* scan_folder *)

S_video == <<"v","i","d","e","o">>
S_music == <<"m","u","s","i","c">>
S_audio == <<"a","u","d","i","o">>
S_image == <<"i","m","a","g","e">>
S_screenshot == <<"s","c","r","e","e","n","s","h","o","t">>
S_photo == <<"p","h","o","t","o">>
S_document == <<"d","o","c","u","m","e","n","t">>
S_form == <<"f","o","r","m">>
S_install == <<"i","n","s","t","a","l","l">>
S_archive == <<"a","r","c","h","i","v","e">>
S_financial == <<"f","i","n","a","n","c","i","a","l">>
S_finance == <<"f","i","n","a","n","c","e">>
S_ai == <<"a","i">>
S_eval == <<"e","v","a","l">>
S_podcast == <<"p","o","d","c","a","s","t">>
S_parenting == <<"p","a","r","e","n","t","i","n","g">>
S_education == <<"e","d","u","c","a","t","i","o","n">>
S_code == <<"c","o","d","e">>
S_project == <<"p","r","o","j","e","c","t">>
S_manual == <<"m","a","n","u","a","l">>
S_reference == <<"r","e","f","e","r","e","n","c","e">>

\* faulty variant: the code/project test comes first
FolderCategoryProjectFirst(folder_lower) ==
    IF Contains(S_code, folder_lower) \/ Contains(S_project, folder_lower)
        THEN "archive"
    ELSE IF Contains(S_video, folder_lower) THEN "video"
    ELSE IF Contains(S_music, folder_lower) \/ Contains(S_audio, folder_lower)
        THEN "audio"
    ELSE IF Contains(S_image, folder_lower) \/ Contains(S_screenshot, folder_lower)
            \/ Contains(S_photo, folder_lower)
        THEN "image"
    ELSE IF Contains(S_document, folder_lower) \/ Contains(S_form, folder_lower)
        THEN "document"
    ELSE IF Contains(S_install, folder_lower) \/ Contains(S_archive, folder_lower)
        THEN "installer"
    ELSE IF Contains(S_financial, folder_lower) \/ Contains(S_finance, folder_lower)
        THEN "document"
    ELSE IF Contains(S_ai, folder_lower) \/ Contains(S_eval, folder_lower)
        THEN "document"
    ELSE IF Contains(S_podcast, folder_lower) \/ Contains(S_parenting, folder_lower)
            \/ Contains(S_education, folder_lower)
        THEN "audio"
    ELSE IF Contains(S_manual, folder_lower) \/ Contains(S_reference, folder_lower)
        THEN "document"
    ELSE "other"

\* the if/elif chain on the lowercased folder name
FolderCategory(folder_lower) ==
    IF Contains(S_video, folder_lower) THEN "video"
    ELSE IF Contains(S_music, folder_lower) \/ Contains(S_audio, folder_lower)
        THEN "audio"
    ELSE IF Contains(S_image, folder_lower) \/ Contains(S_screenshot, folder_lower)
            \/ Contains(S_photo, folder_lower)
        THEN "image"
    ELSE IF Contains(S_document, folder_lower) \/ Contains(S_form, folder_lower)
        THEN "document"
    ELSE IF Contains(S_install, folder_lower) \/ Contains(S_archive, folder_lower)
        THEN "installer"
    ELSE IF Contains(S_financial, folder_lower) \/ Contains(S_finance, folder_lower)
        THEN "document"
    ELSE IF Contains(S_ai, folder_lower) \/ Contains(S_eval, folder_lower)
        THEN "document"
    ELSE IF Contains(S_podcast, folder_lower) \/ Contains(S_parenting, folder_lower)
            \/ Contains(S_education, folder_lower)
        THEN "audio"
    ELSE IF Contains(S_code, folder_lower) \/ Contains(S_project, folder_lower)
        THEN "archive"
    ELSE IF Contains(S_manual, folder_lower) \/ Contains(S_reference, folder_lower)
        THEN "document"
    ELSE "other"

\* the files a folder summary displays
DisplayCap == 20

\* the loop over folder_path.rglob('*') inside the try block; a
\* PermissionError leaves the loop with what was collected so far
RECURSIVE FolderLoop(_, _, _)
FolderLoop(items, i, acc) ==
    IF i > Len(items) THEN acc
    ELSE IF items[i].entry.denied THEN acc
    ELSE LET e == items[i].entry
             file_data == get_file_data(e, items[i].segs)
         IN IF e.kind = "file" /\ ~StartsWithDot(e.name) /\ file_data # None
            THEN FolderLoop(items, i + 1,
                    [files |-> Append(acc.files, file_data),
                     total_size |-> acc.total_size + file_data.size_bytes])
            ELSE FolderLoop(items, i + 1, acc)

\* faulty variant: the list is not cut
DisplayFilesUncut(files) == files

\* files[:20]
DisplayFiles(files) ==
    SubSeq(files, 1, IF Len(files) < DisplayCap THEN Len(files) ELSE DisplayCap)

\* len(files) - 20 if len(files) > 20 else 0
HiddenCount(files) ==
    IF Len(files) > DisplayCap THEN Len(files) - DisplayCap ELSE 0

\* faulty variant: the total is taken over the displayed files
FolderTotalDisplayed(acc) == SumSizes(DisplayFiles(SortFiles(acc.files)))

\* the total_size scan_folder reports: the sum accumulated in the loop
FolderTotal(acc) == acc.total_size

scan_folder(folder_path) ==
    LET acc == FolderLoop(rglob(folder_path.children, <<>>), 1,
                          [files |-> <<>>, total_size |-> 0])
        files == SortFiles(acc.files)
    IN [name |-> folder_path.name,
        category |-> FolderCategory(Lower(folder_path.name)),
        files |-> DisplayFiles(files),
        total_files |-> Len(files),
        hidden_files |-> HiddenCount(files),
        total_size |-> FolderTotal(acc),
        total_size_formatted |-> format_size(FolderTotal(acc))]

-----------------------------------------------------------------------------
(* scan_downloads *)

RecycleBin == <<"$","R","E","C","Y","C","L","E",".","B","I","N">>
Uncategorized == <<"U","n","c","a","t","e","g","o","r","i","z","e","d">>

\* the result dict as created on entry; returned as it is when the root is gone
ResultInit(now) ==
    [folders |-> <<>>,
     stats |-> [total_files |-> 0, total_size |-> 0, categories |-> 0,
                file_types |-> {}],
     scanned_at |-> now]

\* faulty variant: the folders of the previous scan are kept
StaleLists ==
    [folders |-> IF Len(responses) > 0
                 THEN responses[Len(responses)].folders ELSE <<>>,
     root_files |-> <<>>]

\* folders = [] and root_files = [] at the start of every scan
NewLists == [folders |-> <<>>, root_files |-> <<>>]

\* item.name.startswith('.') or item.name == '$RECYCLE.BIN': continue
Skipped(item) == StartsWithDot(item.name) \/ item.name = RecycleBin

\* the loop over the items of the root
RECURSIVE RootLoop(_, _, _)
RootLoop(items, i, acc) ==
    IF i > Len(items) THEN acc
    ELSE IF Skipped(items[i]) THEN RootLoop(items, i + 1, acc)
    ELSE IF items[i].kind = "dir" THEN
        LET folder_data == scan_folder(items[i])
        IN IF Len(folder_data.files) > 0
           THEN RootLoop(items, i + 1,
                    [acc EXCEPT !.folders = Append(@, folder_data)])
           ELSE RootLoop(items, i + 1, acc)
    ELSE
        LET file_data == get_file_data(items[i], <<items[i].name>>)
        IN IF file_data # None
           THEN RootLoop(items, i + 1,
                    [acc EXCEPT !.root_files = Append(@, file_data)])
           ELSE RootLoop(items, i + 1, acc)

\* the synthetic summary of the files that lie directly in the root
UncategorizedSummary(root_files) ==
    [name |-> Uncategorized,
     category |-> "other",
     files |-> root_files,
     total_size |-> SumSizes(root_files)]

\* all_files: the files lists of the folders, one after the other
RECURSIVE AllFiles(_)
AllFiles(folders) ==
    IF Len(folders) = 0 THEN <<>>
    ELSE Head(folders).files \o AllFiles(Tail(folders))

\* faulty variant: the size is summed from the totals of the folders
StatsOfFolderTotals(folders) ==
    LET all_files == AllFiles(folders)
        RECURSIVE Totals(_)
        Totals(fs) == IF Len(fs) = 0 THEN 0 ELSE Head(fs).total_size + Totals(Tail(fs))
    IN [total_files |-> Len(all_files),
        total_size |-> Totals(folders),
        total_size_formatted |-> format_size(Totals(folders)),
        categories |-> Len(folders),
        file_types |-> Cardinality({all_files[i].extension : i \in
                          {j \in 1..Len(all_files) : all_files[j].extension # <<>>}})]

\* the stats block computed from all_files and folders
Stats(folders) ==
    LET all_files == AllFiles(folders)
    IN [total_files |-> Len(all_files),
        total_size |-> SumSizes(all_files),
        total_size_formatted |-> format_size(SumSizes(all_files)),
        categories |-> Len(folders),
        file_types |-> Cardinality({all_files[i].extension : i \in
                          {j \in 1..Len(all_files) : all_files[j].extension # <<>>}})]

\* everything scan_downloads does once the root is known to exist
ScanExisting(items, now) ==
    LET acc == RootLoop(items, 1, NewLists)
        withRoot == IF Len(acc.root_files) > 0
                    THEN Append(acc.folders, UncategorizedSummary(acc.root_files))
                    ELSE acc.folders
        folders == SortFolders(withRoot)
    IN [folders |-> folders, stats |-> Stats(folders), scanned_at |-> now]

\* faulty variant: the existence of the root is not looked at
scan_downloads_Unchecked(items, exists, now) == ScanExisting(items, now)

scan_downloads(items, exists, now) ==
    IF ~exists THEN ResultInit(now) ELSE ScanExisting(items, now)

-----------------------------------------------------------------------------
(* The directory trees of the model *)

N_a_txt == <<"a",".","t","x","t">>
N_B_PDF == <<"B",".","P","D","F">>
N_env == <<".","e","n","v">>
N_clip_mp4 == <<"c","l","i","p",".","m","p","4">>
N_secret == <<"s","e","c","r","e","t",".","k","e","y">>
N_DS_Store == <<".","D","S","_","S","t","o","r","e">>
N_movie_mov == <<"m","o","v","i","e",".","m","o","v">>
N_main_py == <<"m","a","i","n",".","p","y">>
N_config == <<"c","o","n","f","i","g">>
N_Video_Projects == <<"V","i","d","e","o"," ","P","r","o","j","e","c","t","s">>
N_misc == <<"m","i","s","c">>
N_git == <<".","g","i","t">>
N_Screenshots == <<"S","c","r","e","e","n","s","h","o","t","s">>
N_Code == <<"C","o","d","e">>
N_cache == <<".","c","a","c","h","e">>
N_sub == <<"s","u","b">>
N_img == <<"i","m","g">>
N_png == <<".","p","n","g">>
N_old_png == <<"o","l","d",".","p","n","g">>

\* the k-th file of the large folder: imgNN.png, sizes neither sorted nor distinct
\* and none of them zero
BulkFile(k) ==
    File(N_img \o <<Digits[(k \div 10) + 1], Digits[(k % 10) + 1]>> \o N_png,
         ((k * 7) % 11) * 50 + 50, FALSE, FALSE)

\* a hidden file, a 10-byte file and a folder holding a 2000-byte file
ExampleTree ==
    << File(N_DS_Store, 5, FALSE, FALSE),
       File(N_a_txt, 10, FALSE, FALSE),
       Dir(N_Video_Projects, << File(N_movie_mov, 2000, FALSE, FALSE) >>, FALSE) >>

\* the trees a behaviour starts from
Fixtures ==
    { <<>>,
      ExampleTree,
      \* one folder with BulkCount files and a sub-directory holding one more
      << Dir(N_Screenshots,
             [k \in 1..BulkCount |-> BulkFile(k)]
               \o << Dir(N_sub, << File(N_old_png, 700, FALSE, FALSE) >>, FALSE) >>,
             FALSE) >>,
      \* a folder with a file and a hidden directory holding a file
      << Dir(N_Code, << File(N_main_py, 300, FALSE, FALSE),
                        Dir(N_git, << File(N_config, 40, FALSE, FALSE) >>, FALSE) >>,
             FALSE) >> }

\* the files the environment may create
FilePool ==
    { File(N_a_txt, 10, FALSE, FALSE),
      File(N_B_PDF, 2000, FALSE, FALSE),
      File(N_env, 5, FALSE, FALSE),
      File(N_clip_mp4, 3000, TRUE, FALSE) }

\* an entry that can be listed but not examined
DeniedFile == File(N_secret, 7, FALSE, TRUE)

RootDirNames == { N_misc, N_git, RecycleBin }
SubDirNames == { N_cache, RecycleBin }

\* the entries of the directory at path (a sequence of indices from the root)
RECURSIVE EntriesAt(_, _)
EntriesAt(entries, path) ==
    IF Len(path) = 0 THEN entries
    ELSE EntriesAt(entries[Head(path)].children, Tail(path))

\* the indices of the directories among entries
DirIdx(entries) == { j \in 1..Len(entries) : entries[j].kind = "dir" }

\* the paths of the root, of its directories and of theirs
DirPaths(entries) ==
    { <<>> }
    \cup { <<i>> : i \in DirIdx(entries) }
    \cup UNION { { <<i, k>> : k \in DirIdx(entries[i].children) } :
                 i \in DirIdx(entries) }

\* the tree with entry e appended to the directory at path
RECURSIVE AddAt(_, _, _)
AddAt(entries, path, e) ==
    IF Len(path) = 0 THEN Append(entries, e)
    ELSE [entries EXCEPT ![Head(path)].children = AddAt(@, Tail(path), e)]

\* no entry of the directory has the name yet
NameFree(entries, name) == \A i \in 1..Len(entries) : entries[i].name # name

-----------------------------------------------------------------------------
(* The server and its environment *)

Idle == [unavailable |-> TRUE]

Init ==
    /\ tree \in Fixtures
    /\ rootExists = TRUE
    /\ clock = 0
    /\ created = 0
    /\ responses = <<>>
    /\ folder = Idle
    /\ summary = Idle
    /\ size_bytes = 0
    /\ formatted = Idle

\* the environment creates a file somewhere below the root
CreateFile ==
    /\ rootExists
    /\ created < MaxNew
    /\ \E path \in DirPaths(tree) :
       \E f \in FilePool \cup (IF Len(path) > 0 THEN {DeniedFile} ELSE {}) :
          /\ NameFree(EntriesAt(tree, path), f.name)
          /\ tree' = AddAt(tree, path, f)
    /\ created' = created + 1
    /\ responses' = <<>>
    /\ UNCHANGED <<rootExists, clock, folder, summary, size_bytes, formatted>>

\* the environment creates an empty directory in the root or in one of its
\* directories
MakeDir ==
    /\ rootExists
    /\ created < MaxNew
    /\ \E path \in { q \in DirPaths(tree) : Len(q) <= 1 } :
       \E name \in (IF Len(path) = 0 THEN RootDirNames ELSE SubDirNames) :
          /\ NameFree(EntriesAt(tree, path), name)
          /\ tree' = AddAt(tree, path, Dir(name, <<>>, FALSE))
    /\ created' = created + 1
    /\ responses' = <<>>
    /\ UNCHANGED <<rootExists, clock, folder, summary, size_bytes, formatted>>

\* the configured root disappears after startup
RemoveRoot ==
    /\ rootExists
    /\ rootExists' = FALSE
    /\ responses' = <<>>
    /\ UNCHANGED <<tree, clock, created, folder, summary, size_bytes, formatted>>

\* DownloadsHandler.do_GET on /api/scan: one full scan, serialised
ScanRequest ==
    /\ clock < MaxScans
    /\ clock' = clock + 1
    /\ responses' = Append(responses, scan_downloads(tree, rootExists, clock))
    /\ UNCHANGED <<tree, rootExists, created, folder, summary, size_bytes, formatted>>

Next == CreateFile \/ MakeDir \/ RemoveRoot \/ ScanRequest

Spec == Init /\ [][Next]_vars

-----------------------------------------------------------------------------
(* scan_folder on its own: folders whose names are made of the words the   *)
(* category chain looks for                                                *)

\* files a folder of SpecFolder receives
MaxFolderFiles == 1

W_Video == <<"V","i","d","e","o">>
W_PROJECTS == <<"P","R","O","J","E","C","T","S">>
W_Old == <<"O","l","d">>
Words ==
    { W_Video, W_PROJECTS, W_Old, N_misc,
      S_video, S_music, S_audio, S_image, S_screenshot,
      S_photo, S_document, S_form, S_install, S_archive,
      S_financial, S_finance, S_ai, S_eval, S_podcast,
      S_parenting, S_education, S_code, S_project, S_manual,
      S_reference }

\* the words of a name are separated by single spaces
WordCount(name) == 1 + Cardinality({ i \in 1..Len(name) : name[i] = " " })

InitFolder ==
    /\ folder \in { Dir(w, <<>>, FALSE) : w \in Words }
    /\ summary = Idle
    /\ tree = <<>>
    /\ rootExists = TRUE
    /\ clock = 0
    /\ created = 0
    /\ responses = <<>>
    /\ size_bytes = 0
    /\ formatted = Idle

\* the folder is renamed by appending a word
AppendWord ==
    /\ WordCount(folder.name) < MaxWords
    /\ \E w \in Words : folder' = [folder EXCEPT !.name = @ \o <<" ">> \o w]
    /\ summary' = Idle
    /\ UNCHANGED <<tree, rootExists, clock, created, responses, size_bytes, formatted>>

\* a file appears in the folder
PutFile ==
    /\ Len(folder.children) < MaxFolderFiles
    /\ \E f \in { File(N_a_txt, 10, FALSE, FALSE), File(N_movie_mov, 2000, FALSE, FALSE) } :
          /\ NameFree(folder.children, f.name)
          /\ folder' = [folder EXCEPT !.children = Append(@, f)]
    /\ summary' = Idle
    /\ UNCHANGED <<tree, rootExists, clock, created, responses, size_bytes, formatted>>

\* scan_folder(folder)
ScanFolder ==
    /\ summary = Idle
    /\ summary' = scan_folder(folder)
    /\ UNCHANGED <<tree, rootExists, clock, created, responses, folder,
                   size_bytes, formatted>>

NextFolder == AppendWord \/ PutFile \/ ScanFolder

SpecFolder == InitFolder /\ [][NextFolder]_vars

-----------------------------------------------------------------------------
(* format_size on its own: byte counts around the unit thresholds *)

\* the largest byte count the model's integers hold: 2^31 - 1
MaxBytes == GiB + (GiB - 1)

Centers == { Window, 500, KiB, 2048, 1500000, MiB, GiB, MaxBytes - Window - 1 }

Inputs == UNION { (c - Window)..(c + Window) : c \in Centers }

InitFormat ==
    /\ size_bytes \in Inputs
    /\ formatted = Idle
    /\ tree = <<>>
    /\ rootExists = TRUE
    /\ clock = 0
    /\ created = 0
    /\ responses = <<>>
    /\ folder = Idle
    /\ summary = Idle

\* format_size(size_bytes)
Format ==
    /\ formatted = Idle
    /\ formatted' = format_size(size_bytes)
    /\ UNCHANGED <<tree, rootExists, clock, created, responses, folder, summary,
                   size_bytes>>

\* the caller turns to another byte count
NextInput ==
    /\ formatted # Idle
    /\ size_bytes' \in Inputs
    /\ formatted' = Idle
    /\ UNCHANGED <<tree, rootExists, clock, created, responses, folder, summary>>

NextFormat == Format \/ NextInput

SpecFormat == InitFormat /\ [][NextFormat]_vars

-----------------------------------------------------------------------------
(* Properties of the scan results *)

\* a summary built by scan_folder carries total_files; the synthetic one for
\* the files of the root does not
BuiltByScanFolder(f) == "total_files" \in DOMAIN f

\* files[i].size_bytes >= files[i+1].size_bytes for every valid i
SizeDescending(files) ==
    \A i \in 1..(Len(files) - 1) : files[i].size_bytes >= files[i + 1].size_bytes

Max0(n) == IF n > 0 THEN n ELSE 0

\* C1 as stated: every summary of every result, the synthetic Uncategorized
\* one included, lists its files in descending size, lists at most 20, and
\* has hidden_files = max(0, total_files - 20).  (A summary that has no
\* hidden_files field is not held against the last part.)
C1_EverySummaryCapped ==
    \A r \in 1..Len(responses) : \A k \in 1..Len(responses[r].folders) :
        LET f == responses[r].folders[k]
        IN /\ SizeDescending(f.files)
           /\ Len(f.files) <= 20
           /\ BuiltByScanFolder(f) => f.hidden_files = Max0(f.total_files - 20)

\* C1 amended: every summary built by scan_folder lists its files in
\* descending size, lists at most 20, and has
\* hidden_files = max(0, total_files - 20).
C1_ScanFolderSummaryCapped ==
    \A r \in 1..Len(responses) : \A k \in 1..Len(responses[r].folders) :
        LET f == responses[r].folders[k]
        IN BuiltByScanFolder(f) =>
             /\ SizeDescending(f.files)
             /\ Len(f.files) <= 20
             /\ "hidden_files" \in DOMAIN f
             /\ f.hidden_files = Max0(f.total_files - 20)

\* a folder with more than 20 files has been summarised, next to one with fewer
C1_Witness ==
    \E r \in 1..Len(responses) :
        /\ \E k \in 1..Len(responses[r].folders) :
              LET f == responses[r].folders[k]
              IN BuiltByScanFolder(f) /\ f.hidden_files > 0 /\ Len(f.files) = 20
        /\ \E k \in 1..Len(responses[r].folders) :
              LET f == responses[r].folders[k]
              IN BuiltByScanFolder(f) /\ f.hidden_files = 0 /\ Len(f.files) >= 1

\* the segments of a '/'-joined path
RECURSIVE SplitPath(_)
SplitPath(name) ==
    IF \E i \in 1..Len(name) : name[i] = "/"
    THEN LET i == CHOOSE j \in 1..Len(name) :
                     name[j] = "/" /\ \A l \in 1..(j - 1) : name[l] # "/"
         IN <<SubSeq(name, 1, i - 1)>> \o SplitPath(SubSeq(name, i + 1, Len(name)))
    ELSE <<name>>

\* some segment starts with '.', or some directory segment is $RECYCLE.BIN
HasHiddenSegment(segs) ==
    \/ \E i \in 1..Len(segs) : StartsWithDot(segs[i])
    \/ \E i \in 1..(Len(segs) - 1) : segs[i] = RecycleBin

\* C2: no file record of a result comes from a path with a hidden segment:
\* neither the name of its top-level folder, nor that of any directory
\* between that folder and the file, nor its own name starts with '.', and no
\* such directory is named $RECYCLE.BIN.
C2_NoHiddenSegment ==
    \A r \in 1..Len(responses) : \A k \in 1..Len(responses[r].folders) :
        LET f == responses[r].folders[k]
        IN \A i \in 1..Len(f.files) :
              ~HasHiddenSegment(
                  (IF BuiltByScanFolder(f) THEN <<f.name>> ELSE <<>>)
                  \o SplitPath(f.files[i].name))

\* the files below a directory that are not hidden by their own name and
\* whose metadata can be read
RECURSIVE QualifyingUnder(_)
QualifyingUnder(entries) ==
    IF Len(entries) = 0 THEN 0
    ELSE (IF Head(entries).kind = "dir" THEN QualifyingUnder(Head(entries).children)
          ELSE IF ~StartsWithDot(Head(entries).name) /\ ~Head(entries).statFails
               THEN 1 ELSE 0)
         + QualifyingUnder(Tail(entries))

\* the top-level directories with no qualifying file
BarrenDirs ==
    { i \in 1..Len(tree) : tree[i].kind = "dir" /\ QualifyingUnder(tree[i].children) = 0 }

\* C3: the folders of every result are in descending order of total_size, and
\* a top-level directory with no qualifying file (none that is not hidden by
\* its name and can be probed, directly or nested) has no summary.
C3_FoldersSortedNonEmpty ==
    \A r \in 1..Len(responses) :
        LET fs == responses[r].folders
        IN /\ \A k \in 1..(Len(fs) - 1) : fs[k].total_size >= fs[k + 1].total_size
           /\ \A k \in 1..Len(fs) : Len(fs[k].files) > 0
           /\ \A i \in BarrenDirs : \A k \in 1..Len(fs) :
                 BuiltByScanFolder(fs[k]) => fs[k].name # tree[i].name

\* the sort has moved the summary of the root files, appended last, in front
\* of a smaller folder, and a directory with no qualifying file was scanned
C3_Witness ==
    /\ \E i \in BarrenDirs : ~Skipped(tree[i])
    /\ \E r \in 1..Len(responses) :
        LET fs == responses[r].folders
        IN /\ Len(fs) >= 2
           /\ ~BuiltByScanFolder(fs[1])
           /\ fs[1].total_size > fs[2].total_size

\* the sum of size_bytes over the files lists of folders 1..k
RECURSIVE DisplayedSize(_, _)
DisplayedSize(fs, k) ==
    IF k = 0 THEN 0 ELSE SumSizes(fs[k].files) + DisplayedSize(fs, k - 1)

RECURSIVE DisplayedCount(_, _)
DisplayedCount(fs, k) ==
    IF k = 0 THEN 0 ELSE Len(fs[k].files) + DisplayedCount(fs, k - 1)

\* the tree of the worked example: a hidden file, a 10-byte file and a folder
\* holding a 2000-byte file
IsExampleTree == tree = ExampleTree

\* C4: on an existing root the stats are those of the displayed files:
\* total_files is the number of records in the files lists of the returned
\* folders, total_size the sum of their size_bytes, categories the number of
\* returned folders, file_types the number of distinct non-empty extensions;
\* on the worked example total_files = 2 and total_size = 2010.
C4_StatsOfDisplayedFiles ==
    rootExists =>
      \A r \in 1..Len(responses) :
        LET fs == responses[r].folders
            st == responses[r].stats
        IN /\ st.total_files = DisplayedCount(fs, Len(fs))
           /\ st.total_size = DisplayedSize(fs, Len(fs))
           /\ st.categories = Len(fs)
           /\ st.file_types =
                Cardinality(UNION { { fs[k].files[i].extension :
                                        i \in 1..Len(fs[k].files) } :
                                    k \in 1..Len(fs) } \ { <<>> })
           /\ IsExampleTree => st.total_files = 2 /\ st.total_size = 2010

\* a folder with files beyond the displayed ones is among the folders, so
\* that the displayed files are fewer than the files found
C4_Witness ==
    /\ rootExists
    /\ \E r \in 1..Len(responses) :
        LET fs == responses[r].folders
        IN /\ Len(fs) >= 2
           /\ \E k \in 1..Len(fs) :
                 BuiltByScanFolder(fs[k]) /\ fs[k].hidden_files > 0
                 /\ fs[k].total_size > SumSizes(fs[k].files)
           /\ responses[r].stats.file_types >= 2

\* C5: a scan of a root that does not exist returns folders = [] and
\* stats.total_files = 0 and stats.total_size = 0.
C5_MissingRootEmptyResult ==
    ~rootExists =>
      \A r \in 1..Len(responses) :
        /\ responses[r].folders = <<>>
        /\ responses[r].stats.total_files = 0
        /\ responses[r].stats.total_size = 0

\* a request was served after the root, which held files, had disappeared
C5_Witness ==
    /\ ~rootExists
    /\ Len(responses) >= 1
    /\ \E i \in 1..Len(tree) :
          ~Skipped(tree[i]) /\ tree[i].kind = "dir" /\ i \notin BarrenDirs

\* the tree without the files whose metadata cannot be read
RECURSIVE WithoutUnreadable(_)
WithoutUnreadable(entries) ==
    IF Len(entries) = 0 THEN <<>>
    ELSE LET e == Head(entries)
         IN (IF e.kind = "file" /\ e.statFails THEN <<>>
             ELSE IF e.kind = "dir"
                  THEN << [e EXCEPT !.children = WithoutUnreadable(@)] >>
                  ELSE << e >>)
            \o WithoutUnreadable(Tail(entries))

\* the files whose metadata cannot be read, anywhere in the tree
RECURSIVE Unreadable(_)
Unreadable(entries) ==
    IF Len(entries) = 0 THEN {}
    ELSE (IF Head(entries).kind = "dir" THEN Unreadable(Head(entries).children)
          ELSE IF Head(entries).statFails THEN { Head(entries) } ELSE {})
         \cup Unreadable(Tail(entries))

\* a result without its timestamp
Content(result) == [folders |-> result.folders, stats |-> result.stats]

RECURSIVE Pow1024(_)
Pow1024(e) == IF e = 0 THEN 1 ELSE 1024 * Pow1024(e - 1)

\* the number of unit thresholds (1024, 1024^2, 1024^3) that b has reached
UnitRank(b) == Cardinality({ e \in 1..3 : b >= Pow1024(e) })

\* C8: format_size(b) uses B for b < 1024, KB for 1024 <= b < 1024^2, MB for
\* 1024^2 <= b < 1024^3 and GB otherwise, with 0, 1, 1 and 2 decimals.
C8_UnitByThreshold ==
    formatted # Idle =>
        /\ formatted.unit = <<"B", "KB", "MB", "GB">>[UnitRank(size_bytes) + 1]
        /\ formatted.decimals = <<0, 1, 1, 2>>[UnitRank(size_bytes) + 1]

\* the last byte count below 1024^2 has been formatted, in KB
C8_Witness ==
    /\ formatted # Idle
    /\ size_bytes = 1024 * 1024 - 1
    /\ formatted.unit = "KB"

\* the chain of predicates: the substrings looked for and the category given
CategoryChain ==
    << [subs |-> {S_video}, category |-> "video"],
       [subs |-> {S_music, S_audio}, category |-> "audio"],
       [subs |-> {S_image, S_screenshot, S_photo}, category |-> "image"],
       [subs |-> {S_document, S_form}, category |-> "document"],
       [subs |-> {S_install, S_archive}, category |-> "installer"],
       [subs |-> {S_financial, S_finance}, category |-> "document"],
       [subs |-> {S_ai, S_eval}, category |-> "document"],
       [subs |-> {S_podcast, S_parenting, S_education}, category |-> "audio"],
       [subs |-> {S_code, S_project}, category |-> "archive"],
       [subs |-> {S_manual, S_reference}, category |-> "document"] >>

\* the predicates of the chain that hold of a lowercased name
Matching(lowered) ==
    { p \in 1..Len(CategoryChain) :
        \E sub \in CategoryChain[p].subs : Contains(sub, lowered) }

\* C9: the category of a folder summary is that of the first predicate of
\* the chain whose substring occurs in the lowercased folder name, 'other'
\* when there is none; a name containing 'video' gets video whatever else it
\* contains; the files of the folder play no part.
C9_FirstMatchingPredicate ==
    summary # Idle =>
        LET m == Matching(Lower(folder.name))
        IN /\ m = {} => summary.category = "other"
           /\ m # {} =>
                summary.category =
                   CategoryChain[CHOOSE p \in m : \A q \in m : p <= q].category
           /\ Contains(S_video, Lower(folder.name)) => summary.category = "video"

\* a folder whose name contains both 'video' and 'project', and which holds
\* a file, has been summarised
C9_Witness ==
    /\ summary # Idle
    /\ Contains(S_video, Lower(folder.name))
    /\ Contains(S_project, Lower(folder.name))
    /\ Len(folder.children) > 0
    /\ summary.category = "video"

\* the positions of the enumeration of a folder that the loop reaches: those
\* before the first entry that raises PermissionError
Reached(items) ==
    { i \in 1..Len(items) : \A j \in 1..i : ~items[j].entry.denied }

\* the positions among them of the files the folder includes
Included(items) ==
    { i \in Reached(items) :
        /\ items[i].entry.kind = "file"
        /\ ~StartsWithDot(items[i].entry.name)
        /\ ~items[i].entry.statFails }

RECURSIVE SizeOver(_, _)
SizeOver(items, idx) ==
    IF idx = {} THEN 0
    ELSE LET i == CHOOSE j \in idx : TRUE
         IN items[i].entry.size + SizeOver(items, idx \ {i})

\* C10: in every summary built by scan_folder total_files is the number of
\* included files found under the folder before any PermissionError, and
\* total_size the sum of their sizes, both before the cut to 20.
C10_TotalsOverFullSet ==
    rootExists =>
      \A r \in 1..Len(responses) : \A k \in 1..Len(responses[r].folders) :
        LET f == responses[r].folders[k]
        IN BuiltByScanFolder(f) =>
             \E i \in 1..Len(tree) :
                /\ tree[i].kind = "dir" /\ tree[i].name = f.name
                /\ LET items == rglob(tree[i].children, <<>>)
                   IN /\ f.total_files = Cardinality(Included(items))
                      /\ f.total_size = SizeOver(items, Included(items))

\* a folder was summarised in which a PermissionError cut the enumeration
\* short of a file, and which still had more files than are displayed
C10_Witness ==
    /\ rootExists
    /\ \E r \in 1..Len(responses) : \E k \in 1..Len(responses[r].folders) :
        LET f == responses[r].folders[k]
        IN /\ BuiltByScanFolder(f)
           /\ f.hidden_files > 0
           /\ f.total_size > SumSizes(f.files)
           /\ \E i \in 1..Len(tree) :
                /\ tree[i].name = f.name /\ tree[i].kind = "dir"
                /\ LET items == rglob(tree[i].children, <<>>)
                   IN \E j \in 1..Len(items) :
                         /\ j \notin Reached(items)
                         /\ items[j].entry.kind = "file"
                         /\ ~items[j].entry.denied

====
